---- MODULE Spec2Model ----
(***************************************************************************)
(* Model of src/services/geminiService.ts: the tolerant JSON extractor     *)
(* (cleanJson), the rate-limit retrier (retryWithBackoff) and the three    *)
(* call sites checkProjectFeasibility, generateConstructionEstimate and    *)
(* sendChatMessage.                                                        *)
(*                                                                         *)
(* Texts the code inspects character by character (provider replies,       *)
(* error messages) are sequences of one-character strings.  One behaviour  *)
(* of the model is one call of one operation; Init draws the operation and *)
(* its arguments, the provider's answers are drawn when a request is made. *)
(***************************************************************************)
EXTENDS Integers, Sequences, FiniteSets, TLC

\* ---------------------------------------------------------------- bounds
MaxRetriesBound == 3   \* largest maxRetries passed to retryWithBackoff directly
MaxBaseDelay == 2      \* small base delays tried besides the default one
MaxHistory == 2        \* longest chat history
MaxPieces == 5         \* longest text given to cleanJson, in pieces

\* ------------------------------------------------------ program constants
DefaultMaxRetries == 5
DefaultBaseDelay == 2000
RateLimitStatus == 429

\* ------------------------------------------------------------ text helpers
\* the backquote character U+0060 (a string literal cannot hold it)
BackTick == "BACKTICK"
Fence == <<BackTick, BackTick, BackTick>>
JsonTag == <<"j", "s", "o", "n">>
NL == <<"\n">>
FenceJsonNl == Fence \o JsonTag \o NL
NlFence == NL \o Fence
EmptyObjectText == <<"{", "}">>

Min(S) == CHOOSE x \in S : \A y \in S : x <= y

RECURSIVE SumSeq(_)
SumSeq(s) == IF s = <<>> THEN 0 ELSE Head(s) + SumSeq(Tail(s))

RECURSIVE Concat(_)
Concat(ss) == IF ss = <<>> THEN <<>> ELSE Head(ss) \o Concat(Tail(ss))

\* pat occurs in s at position i (1-based)
MatchAt(s, pat, i) ==
    /\ i >= 1
    /\ i + Len(pat) - 1 <= Len(s)
    /\ SubSeq(s, i, i + Len(pat) - 1) = pat

Positions(s, pat) == {i \in 1..Len(s) : MatchAt(s, pat, i)}

\* String.prototype.includes
Includes(s, pat) == Positions(s, pat) # {}

\* String.prototype.match with the regular expression  open([\s\S]*?)close :
\* the leftmost position of `open` after which `close` still occurs, and the
\* shortest capture from there (the lazy quantifier).
RegexMatch(s, open, close) ==
    LET closes(i) == {j \in Positions(s, close) : j >= i + Len(open)}
        starts == {i \in Positions(s, open) : closes(i) # {}}
    IN  IF starts = {}
        THEN [found |-> FALSE, group |-> <<>>]
        ELSE LET i == Min(starts)
                 j == Min(closes(i))
             IN  [found |-> TRUE, group |-> SubSeq(s, i + Len(open), j - 1)]

cleanJson(text) ==
    LET tagged == RegexMatch(text, FenceJsonNl, NlFence)
        match == IF tagged.found THEN tagged ELSE RegexMatch(text, Fence, Fence)
    IN  IF match.found THEN match.group ELSE text

\* -------------------------------------------------- errors thrown by fn
MsgBoom == <<"b", "o", "o", "m">>
MsgRateLimit == <<"a", " ", "r", "a", "t", "e", " ", "l", "i", "m", "i", "t", "!">>
MsgRateCaps == <<"R", "a", "t", "e", " ", "L", "i", "m", "i", "t">>

\* status 0, code "undefined" and message <<>> stand for a missing property
Err429 == [status |-> 429, code |-> "undefined", message |-> MsgBoom]
ErrCode == [status |-> 400, code |-> "rate_limit_exceeded", message |-> <<>>]
ErrMsg == [status |-> 0, code |-> "undefined", message |-> MsgRateLimit]
ErrServer == [status |-> 500, code |-> "server_error", message |-> MsgBoom]
ErrNearMiss == [status |-> 428, code |-> "rate_limit", message |-> MsgRateCaps]
Undefined == [status |-> 0, code |-> "undefined", message |-> <<>>]
Errors == {Err429, ErrCode, ErrMsg, ErrServer, ErrNearMiss}

IsRateLimit_statusOnly(error) == error.status = RateLimitStatus

IsRateLimit_anyClientError(error) ==
    \/ error.status >= 400
    \/ error.code = "rate_limit_exceeded"
    \/ Includes(error.message, <<"r", "a", "t", "e", " ", "l", "i", "m", "i", "t">>)

IsRateLimit(error) ==
    \/ error.status = RateLimitStatus
    \/ error.code = "rate_limit_exceeded"
    \/ Includes(error.message, <<"r", "a", "t", "e", " ", "l", "i", "m", "i", "t">>)

\* ------------------------------------------------- provider responses
\* A reply object is an opening brace, one character per key carrying a
\* truthy value, and a closing brace.
FeasibilityKeys == {"V", "G", "I", "S"}  \* isValid, budgetVerdict, issues, suggestions
EstimationKeys == {"C", "T", "D", "F", "R", "K", "W", "E", "M"}
KeyChars == FeasibilityKeys \cup EstimationKeys
Whitespace == {"\n", " "}

TextFeasibility == <<"{", "V", "G", "I", "S", "}">>
TextPartial == <<"{", "V", "}">>
TextEstimate == <<"{", "C", "T", "D", "F", "R", "K", "W", "E", "M", "}">>
TextEstimatePartial == <<"{", "C", "T", "}">>
TextNull == <<"n", "u", "l", "l">>
TextProse == <<"o", "o", "p", "s">>

ReplyTexts ==
    { <<>>, EmptyObjectText, TextFeasibility, TextEstimate, TextEstimatePartial,
      TextNull, TextProse,
      FenceJsonNl \o TextFeasibility \o NlFence,
      FenceJsonNl \o TextEstimate \o NlFence,
      Fence \o TextPartial \o Fence,
      Fence \o NL \o TextEstimate \o NL \o Fence,
      Fence \o JsonTag \o TextFeasibility \o Fence,
      Fence \o JsonTag \o NL \o TextEstimate \o Fence }

\* response.choices?.[0]?.message?.content is absent, or is a text
NoContent == [present |-> FALSE, content |-> <<>>]
Responses == {NoContent} \cup {[present |-> TRUE, content |-> t] : t \in ReplyTexts}

Succeeded(r) == [ok |-> TRUE, value |-> r, error |-> Undefined]
Failed(e) == [ok |-> FALSE, value |-> NoContent, error |-> e]
FnOutcomes == {Succeeded(r) : r \in Responses} \cup {Failed(e) : e \in Errors}

\* response.choices?.[0]?.message?.content || default
ContentOr(response, default) ==
    IF response.present /\ response.content # <<>> THEN response.content ELSE default

RECURSIVE TrimLeft(_)
TrimLeft(s) == IF s # <<>> /\ Head(s) \in Whitespace THEN TrimLeft(Tail(s)) ELSE s

RECURSIVE TrimRight(_)
TrimRight(s) ==
    IF s # <<>> /\ s[Len(s)] \in Whitespace THEN TrimRight(SubSeq(s, 1, Len(s) - 1)) ELSE s

\* JSON.parse on the reply grammar: surrounding whitespace is skipped, the
\* text is `null` or an object, anything else is a SyntaxError.
ParseJSON(text) ==
    LET t == TrimRight(TrimLeft(text))
        inner == SubSeq(t, 2, Len(t) - 1)
    IN  IF t = TextNull
        THEN [ok |-> TRUE, isNull |-> TRUE, keys |-> {}]
        ELSE IF /\ Len(t) >= 2
                /\ t[1] = "{"
                /\ t[Len(t)] = "}"
                /\ \A i \in 1..Len(inner) : inner[i] \in KeyChars
             THEN [ok |-> TRUE, isNull |-> FALSE, keys |-> {inner[i] : i \in 1..Len(inner)}]
             ELSE [ok |-> FALSE, isNull |-> FALSE, keys |-> {}]

\* --------------------------------------------------- retryWithBackoff
LoopContinues_exclusive(attempt, maxRetries) == attempt < maxRetries

LoopContinues(attempt, maxRetries) == attempt <= maxRetries

ShouldRetry_unbounded(error, attempt, maxRetries) == IsRateLimit(error)

ShouldRetry(error, attempt, maxRetries) ==
    IsRateLimit(error) /\ attempt < maxRetries

BackoffDelay_linear(baseDelay, attempt) == baseDelay * (attempt + 1)

BackoffDelay(baseDelay, attempt) == baseDelay * (2 ^ attempt)

Pending == [kind |-> "pending", value |-> NoContent, error |-> Undefined]
Returned(v) == [kind |-> "value", value |-> v, error |-> Undefined]
Thrown(e) == [kind |-> "error", value |-> NoContent, error |-> e]

\* ----------------------------------------------------- call sites
FeasibilityFallback ==
    [isValid |-> FALSE, budgetVerdict |-> "Insufficient",
     issues |-> <<"Service unavailable or parse error">>, suggestions |-> <<>>]

\* the object literal of the success path, with its defaults
FeasibilityFromData(keys) ==
    [isValid |-> "V" \in keys,
     budgetVerdict |-> IF "G" \in keys THEN "Realistic" ELSE "Insufficient",
     issues |-> IF "I" \in keys THEN <<"issue">> ELSE <<>>,
     suggestions |-> IF "S" \in keys THEN <<"suggestion">> ELSE <<>>]

\* the error JSON.parse throws, and the TypeError of reading a property of null
SyntaxError == [status |-> 0, code |-> "SyntaxError", message |-> <<>>]

\* what checkProjectFeasibility settles with, given how the retrier settled
FeasibilityOutcome_parseOutsideTry(ret) ==
    IF ret.kind = "error"
    THEN Returned(FeasibilityFallback)
    ELSE LET data == ParseJSON(cleanJson(ContentOr(ret.value, EmptyObjectText)))
         IN  IF ~data.ok \/ data.isNull
             THEN Thrown([status |-> 0, code |-> "SyntaxError", message |-> <<>>])
             ELSE Returned(FeasibilityFromData(data.keys))

FeasibilityOutcome(ret) ==
    IF ret.kind = "error"
    THEN Returned(FeasibilityFallback)
    ELSE LET data == ParseJSON(cleanJson(ContentOr(ret.value, EmptyObjectText)))
         IN  IF ~data.ok \/ data.isNull
             THEN Returned(FeasibilityFallback)
             ELSE Returned(FeasibilityFromData(data.keys))

\* what generateConstructionEstimate settles with
EstimateOutcome_swallow(ret) ==
    LET data == ParseJSON(cleanJson(ContentOr(ret.value, EmptyObjectText)))
    IN  IF ret.kind = "error" \/ ~data.ok
        THEN Returned([isNull |-> FALSE, keys |-> {}])
        ELSE Returned([isNull |-> data.isNull, keys |-> data.keys])

EstimateOutcome(ret) ==
    IF ret.kind = "error"
    THEN Thrown(ret.error)
    ELSE LET data == ParseJSON(cleanJson(ContentOr(ret.value, EmptyObjectText)))
         IN  IF ~data.ok
             THEN Thrown(SyntaxError)
             ELSE Returned([isNull |-> data.isNull, keys |-> data.keys])

\* sendChatMessage: the role translation and the message list
ToProviderRole_userOnly(role) == IF role = "user" THEN "user" ELSE "assistant"

ToProviderRole(role) == IF role = "model" THEN "assistant" ELSE "user"

ChatMessages(history, message) ==
    Append([i \in 1..Len(history) |->
               [role |-> ToProviderRole(history[i].role),
                content |-> history[i].parts[1]]],
           [role |-> "user", content |-> message])

\* h.parts[0].text of an entry without parts is a TypeError
TypeError == [status |-> 0, code |-> "TypeError", message |-> <<>>]
MapFails(history) == \E i \in 1..Len(history) : history[i].parts = <<>>

ChatOutcome(o) ==
    IF o.ok THEN Returned([text |-> ContentOr(o.value, <<>>)]) ELSE Thrown(o.error)

\* ------------------------------------------------------------- inputs
Operations ==
    {"retryWithBackoff", "checkProjectFeasibility", "generateConstructionEstimate",
     "sendChatMessage", "cleanJson"}
ViaRetrier == {"retryWithBackoff", "checkProjectFeasibility", "generateConstructionEstimate"}

RetryCounts == (-1)..MaxRetriesBound
BaseDelays == (0..MaxBaseDelay) \cup {DefaultBaseDelay}

Roles == {"model", "user", "system"}
HistoryEntries ==
    {[role |-> r, parts |-> p] : r \in Roles, p \in {<<>>, <<"first">>, <<"one", "two">>}}
Histories == UNION {[1..n -> HistoryEntries] : n \in 0..MaxHistory}
NewMessages == {"first", "question"}

Pieces == {Fence, JsonTag, NL, EmptyObjectText, <<BackTick>>}
Texts == {Concat(ps) : ps \in UNION {[1..n -> Pieces] : n \in 0..MaxPieces}}

\* -------------------------------------------------------------- state
VARIABLES
    op,          \* the operation this behaviour executes
    pc,          \* where it is: "loop", "wait", "settled", "chat", "clean", "done"
    maxRetries,  \* retryWithBackoff's arguments
    baseDelay,
    attempt,     \* the loop variable of retryWithBackoff
    lastError,
    outcomes,    \* what each invocation of fn / each request produced, in order
    waits,       \* the delay of each setTimeout started, in order
    ret,         \* how retryWithBackoff settled
    opResult,    \* how the exported operation settled
    history,     \* sendChatMessage's arguments
    message,
    sent,        \* the message list handed to the provider by sendChatMessage
    text,        \* cleanJson's argument and result
    cleaned

vars == <<op, pc, maxRetries, baseDelay, attempt, lastError, outcomes, waits, ret,
          opResult, history, message, sent, text, cleaned>>

Init ==
    /\ op \in Operations
    /\ pc = IF op \in ViaRetrier THEN "loop"
            ELSE IF op = "sendChatMessage" THEN "chat" ELSE "clean"
    /\ IF op = "retryWithBackoff"
       THEN maxRetries \in RetryCounts /\ baseDelay \in BaseDelays
       ELSE maxRetries = DefaultMaxRetries /\ baseDelay = DefaultBaseDelay
    /\ attempt = 0
    /\ lastError = Undefined
    /\ outcomes = <<>>
    /\ waits = <<>>
    /\ ret = Pending
    /\ opResult = Pending
    /\ IF op = "sendChatMessage"
       THEN history \in Histories /\ message \in NewMessages
       ELSE history = <<>> /\ message = "first"
    /\ sent = <<>>
    /\ IF op = "cleanJson" THEN text \in Texts ELSE text = <<>>
    /\ cleaned = <<>>

\* One pass of the loop body up to the next suspension: fn is invoked and
\* settles; on success the retrier returns, on failure the catch block either
\* starts the backoff timer or rethrows.
Attempt ==
    /\ pc = "loop"
    /\ LoopContinues(attempt, maxRetries)
    /\ \E o \in FnOutcomes :
         /\ outcomes' = Append(outcomes, o)
         /\ IF o.ok
            THEN /\ ret' = Returned(o.value)
                 /\ pc' = "settled"
                 /\ UNCHANGED <<lastError, waits>>
            ELSE /\ lastError' = o.error
                 /\ IF ShouldRetry(o.error, attempt, maxRetries)
                    THEN /\ waits' = Append(waits, BackoffDelay(baseDelay, attempt))
                         /\ pc' = "wait"
                         /\ UNCHANGED ret
                    ELSE /\ ret' = Thrown(o.error)
                         /\ pc' = "settled"
                         /\ UNCHANGED waits
    /\ UNCHANGED <<op, maxRetries, baseDelay, attempt, opResult, history, message,
                   sent, text, cleaned>>

\* the timer fires, `continue`, attempt++
BackoffElapsed ==
    /\ pc = "wait"
    /\ attempt' = attempt + 1
    /\ pc' = "loop"
    /\ UNCHANGED <<op, maxRetries, baseDelay, lastError, outcomes, waits, ret,
                   opResult, history, message, sent, text, cleaned>>

\* the loop condition fails: throw lastError
LoopExit ==
    /\ pc = "loop"
    /\ ~LoopContinues(attempt, maxRetries)
    /\ ret' = Thrown(lastError)
    /\ pc' = "settled"
    /\ UNCHANGED <<op, maxRetries, baseDelay, attempt, lastError, outcomes, waits,
                   opResult, history, message, sent, text, cleaned>>

\* checkProjectFeasibility resumes after `await retryWithBackoff(...)`
FeasibilityFinish ==
    /\ op = "checkProjectFeasibility"
    /\ pc = "settled"
    /\ opResult' = FeasibilityOutcome(ret)
    /\ pc' = "done"
    /\ UNCHANGED <<op, maxRetries, baseDelay, attempt, lastError, outcomes, waits,
                   ret, history, message, sent, text, cleaned>>

\* generateConstructionEstimate resumes after `await retryWithBackoff(...)`
EstimateFinish ==
    /\ op = "generateConstructionEstimate"
    /\ pc = "settled"
    /\ opResult' = EstimateOutcome(ret)
    /\ pc' = "done"
    /\ UNCHANGED <<op, maxRetries, baseDelay, attempt, lastError, outcomes, waits,
                   ret, history, message, sent, text, cleaned>>

\* sendChatMessage: build the list, one request, return its text or fail;
\* when the list cannot be built the call fails before any request
ChatRequest ==
    /\ op = "sendChatMessage"
    /\ pc = "chat"
    /\ IF MapFails(history)
       THEN /\ opResult' = Thrown(TypeError)
            /\ UNCHANGED <<sent, outcomes>>
       ELSE /\ sent' = ChatMessages(history, message)
            /\ \E o \in FnOutcomes :
                 /\ outcomes' = Append(outcomes, o)
                 /\ opResult' = ChatOutcome(o)
    /\ pc' = "done"
    /\ UNCHANGED <<op, maxRetries, baseDelay, attempt, lastError, waits, ret,
                   history, message, text, cleaned>>

CleanJsonCall ==
    /\ op = "cleanJson"
    /\ pc = "clean"
    /\ cleaned' = cleanJson(text)
    /\ pc' = "done"
    /\ UNCHANGED <<op, maxRetries, baseDelay, attempt, lastError, outcomes, waits,
                   ret, opResult, history, message, sent, text>>

Next ==
    \/ Attempt
    \/ BackoffElapsed
    \/ LoopExit
    \/ FeasibilityFinish
    \/ EstimateFinish
    \/ ChatRequest
    \/ CleanJsonCall

Spec == Init /\ [][Next]_vars

\* retryWithBackoff called on its own.  The event loop runs every pending
\* continuation and timer callback, and every invocation of fn settles, so a
\* step that is enabled is eventually taken.
RetrierInit == Init /\ op = "retryWithBackoff"

RetrierNext ==
    \/ Attempt
    \/ BackoffElapsed
    \/ LoopExit

FairRetrierSpec == RetrierInit /\ [][RetrierNext]_vars /\ WF_vars(RetrierNext)


\* ------------------------------------------------------------ properties
\* the three rate-limit signals, as concrete errors
RateLimitErrors == {Err429, ErrCode, ErrMsg}

Last(s) == s[Len(s)]
RateLimitedAt(k) == ~outcomes[k].ok /\ outcomes[k].error \in RateLimitErrors
RetrierSettled == pc \in {"settled", "done"}

\* C1: when the first n invocations of fn fail with a rate-limit error
\* (0 <= n <= maxRetries) and invocation n+1 succeeds, retryWithBackoff returns
\* that value, fn has been invoked exactly n+1 times, the wait before retry k
\* is baseDelay*2^k and the total wait is the sum of these, baseDelay*(2^n - 1).
C1_BackoffThenSuccess ==
    LET n == Len(outcomes) - 1 IN
    ( /\ op \in ViaRetrier
      /\ outcomes # <<>>
      /\ Last(outcomes).ok
      /\ n <= maxRetries
      /\ \A k \in 1..n : RateLimitedAt(k) )
    => /\ RetrierSettled
       /\ ret = Returned(Last(outcomes).value)
       /\ Len(waits) = n
       /\ \A k \in 0..(n - 1) : waits[k + 1] = baseDelay * (2 ^ k)
       /\ SumSeq(waits) = baseDelay * ((2 ^ n) - 1)

C1_Witness ==
    /\ op = "retryWithBackoff"
    /\ Len(outcomes) = 3
    /\ Last(outcomes).ok
    /\ baseDelay = 2
    /\ waits = <<2, 4>>
    /\ ret.kind = "value"

\* C2: an invocation of fn that fails with an error that is not a rate-limit
\* error is the last invocation; the retrier throws that same error and starts
\* no wait after it (so no wait at all when it is the first attempt).
C2_OtherErrorsPropagate ==
    op \in ViaRetrier =>
      \A k \in 1..Len(outcomes) :
        (~outcomes[k].ok /\ outcomes[k].error \notin RateLimitErrors)
        => /\ k = Len(outcomes)
           /\ RetrierSettled
           /\ ret = Thrown(outcomes[k].error)
           /\ Len(waits) = k - 1
           /\ (k = 1 => SumSeq(waits) = 0)

C2_Witness ==
    /\ op = "retryWithBackoff"
    /\ Len(outcomes) = 3
    /\ RateLimitedAt(1) /\ RateLimitedAt(2)
    /\ Last(outcomes) = Failed(ErrNearMiss)
    /\ ret = Thrown(ErrNearMiss)
    /\ Len(waits) = 2

\* C3 as stated: once maxRetries invocations of fn have each failed with a
\* rate-limit error, the error of the last of them is thrown and fn is not
\* invoked again.
C3_AsClaimed ==
    ( /\ op \in ViaRetrier
      /\ maxRetries >= 1
      /\ Len(outcomes) >= maxRetries
      /\ \A k \in 1..maxRetries : RateLimitedAt(k) )
    => /\ Len(outcomes) = maxRetries
       /\ pc # "wait"
       /\ RetrierSettled => ret = Thrown(outcomes[maxRetries].error)

\* C3 amended: the retrier gives up on a rate-limit error exactly when
\* maxRetries+1 invocations of fn have each failed with a rate-limit error; it
\* then throws the error of the last of them, fn is not invoked again, and
\* maxRetries waits were made.
C3_ExhaustedAfterMaxRetriesPlusOne ==
    (op \in ViaRetrier /\ maxRetries >= 0) =>
      /\ ( /\ Len(outcomes) >= maxRetries + 1
           /\ \A k \in 1..(maxRetries + 1) : RateLimitedAt(k) )
         => /\ Len(outcomes) = maxRetries + 1
            /\ RetrierSettled
            /\ ret = Thrown(Last(outcomes).error)
            /\ Len(waits) = maxRetries
      /\ (ret.kind = "error" /\ ret.error \in RateLimitErrors)
         => /\ Len(outcomes) = maxRetries + 1
            /\ ret.error = Last(outcomes).error
            /\ \A k \in 1..(maxRetries + 1) : RateLimitedAt(k)

C3_Witness ==
    /\ op = "retryWithBackoff"
    /\ maxRetries = 2
    /\ Len(outcomes) = 3
    /\ outcomes[1] = Failed(Err429)
    /\ outcomes[3] = Failed(ErrMsg)
    /\ ret = Thrown(ErrMsg)

\* C4: for maxRetries >= 0, fn is invoked at least once and at most
\* maxRetries+1 times and the call then returns or throws; with maxRetries = 0
\* it is invoked exactly once and no backoff wait is started.
C4_CallsBounded ==
    maxRetries >= 0 =>
      /\ Len(outcomes) <= maxRetries + 1
      /\ Len(waits) <= maxRetries
      /\ RetrierSettled => (Len(outcomes) >= 1 /\ ret.kind \in {"value", "error"})
      /\ maxRetries = 0 => (waits = <<>> /\ (RetrierSettled => Len(outcomes) = 1))

C4_BoundedTermination == []C4_CallsBounded /\ <>RetrierSettled

C4_Witness ==
    /\ op = "retryWithBackoff"
    /\ maxRetries = 0
    /\ outcomes = <<Failed(ErrCode)>>
    /\ ret = Thrown(ErrCode)
    /\ waits = <<>>

\* C5: checkProjectFeasibility never raises; when the provider call fails
\* finally, or the text extracted from the reply is not JSON, it returns
\* exactly the fixed fallback object.
C5_FeasibilityNeverRaises ==
    op = "checkProjectFeasibility" =>
      /\ opResult.kind # "error"
      /\ pc = "done" =>
           /\ opResult.kind = "value"
           /\ ( \/ ~Last(outcomes).ok
                \/ ~ParseJSON(cleanJson(ContentOr(Last(outcomes).value, EmptyObjectText))).ok )
              => opResult.value = FeasibilityFallback

C5_Witness ==
    /\ op = "checkProjectFeasibility"
    /\ pc = "done"
    /\ Len(outcomes) = 2
    /\ RateLimitedAt(1)
    /\ Last(outcomes) = Succeeded([present |-> TRUE, content |-> TextProse])
    /\ opResult = Returned(FeasibilityFallback)

\* C6: when the provider call of generateConstructionEstimate fails finally,
\* the operation fails towards its caller with that same error and returns no
\* result object.
C6_EstimatePropagates ==
    op = "generateConstructionEstimate" =>
      /\ pc # "done" => opResult = Pending
      /\ (pc = "done" /\ ~Last(outcomes).ok) => opResult = Thrown(Last(outcomes).error)

C6_Witness ==
    /\ op = "generateConstructionEstimate"
    /\ pc = "done"
    /\ Len(outcomes) = DefaultMaxRetries + 1
    /\ Last(outcomes) = Failed(Err429)
    /\ opResult = Thrown(Err429)

\* C7: for a history whose entries each carry a text, sendChatMessage sends
\* Len(history)+1 messages in order; entry i has the text of history[i] and the
\* role "assistant" when history[i].role is "model", "user" otherwise; the last
\* entry is the new message as "user"; the history is not modified; the result
\* is the reply's text, or the empty string when it is absent.
C7_Sent ==
    ( /\ op = "sendChatMessage"
      /\ pc = "done"
      /\ \A i \in 1..Len(history) : history[i].parts # <<>> ) =>
      /\ Len(sent) = Len(history) + 1
      /\ \A i \in 1..Len(history) :
           /\ sent[i].content = history[i].parts[1]
           /\ sent[i].role = (IF history[i].role = "model" THEN "assistant" ELSE "user")
      /\ Last(sent) = [role |-> "user", content |-> message]
      /\ outcomes[1].ok =>
           opResult = Returned([text |-> IF outcomes[1].value.present
                                         THEN outcomes[1].value.content ELSE <<>>])

C7_ChatRelay == []C7_Sent /\ [][history' = history]_vars

C7_Witness ==
    /\ op = "sendChatMessage"
    /\ pc = "done"
    /\ Len(history) = 2
    /\ history[1].role = "model"
    /\ history[2].role = "system"
    /\ Len(sent) = 3
    /\ opResult = Returned([text |-> <<>>])
    /\ outcomes[1].value = NoContent

\* C8 as stated: (1) a text with a block opened by a fence immediately
\* followed by the tag json and closed by a fence yields the content enclosed
\* by that block, without the tag; (2) otherwise a text with a fenced block
\* yields the content between the first fence and the next one; (3) otherwise
\* the text is returned unchanged.
TaggedOpenings(t) ==
    {i \in Positions(t, Fence \o JsonTag) :
        \E j \in Positions(t, Fence) : j >= i + Len(Fence \o JsonTag)}
FencePairs(t) == {i \in Positions(t, Fence) : \E j \in Positions(t, Fence) : j >= i + Len(Fence)}
Enclosed(t, i, skip) ==
    SubSeq(t, i + skip, Min({j \in Positions(t, Fence) : j >= i + skip}) - 1)
StripNewlines(t) ==
    LET a == IF t # <<>> /\ Head(t) = "\n" THEN Tail(t) ELSE t
    IN  IF a # <<>> /\ Last(a) = "\n" THEN SubSeq(a, 1, Len(a) - 1) ELSE a

C8_AsClaimed ==
    (op = "cleanJson" /\ pc = "done") =>
      IF TaggedOpenings(text) # {}
      THEN \E i \in TaggedOpenings(text) :
             LET inner == Enclosed(text, i, Len(Fence \o JsonTag))
             IN  cleaned \in {inner, StripNewlines(inner)}
      ELSE IF FencePairs(text) # {}
           THEN cleaned = Enclosed(text, Min(FencePairs(text)), Len(Fence))
           ELSE cleaned = text

\* C9 as stated: every result generateConstructionEstimate returns was parsed
\* from the provider's actual reply content and carries all EstimationResult
\* fields.
C9_AsClaimed ==
    (op = "generateConstructionEstimate" /\ pc = "done" /\ opResult.kind = "value") =>
      /\ Last(outcomes).value.present
      /\ Last(outcomes).value.content # <<>>
      /\ ~opResult.value.isNull
      /\ EstimationKeys \subseteq opResult.value.keys

CallSites == {"checkProjectFeasibility", "generateConstructionEstimate", "sendChatMessage"}

\* C10 as stated: in each of the three call sites a rate-limit failure of the
\* request on an attempt before the retry limit is followed by a backoff wait
\* and another request, and never ends the operation.
C10_AsClaimed ==
    op \in CallSites =>
      \A k \in 1..Len(outcomes) :
        (RateLimitedAt(k) /\ k <= maxRetries)
        => /\ Len(waits) >= k
           /\ pc = "done" => Len(outcomes) > k

\* C10 amended: checkProjectFeasibility and generateConstructionEstimate make
\* the request through the retrier, so a rate-limit failure on an attempt
\* before the retry limit is followed by a backoff wait and another request
\* and never reaches their caller or fallback handler; sendChatMessage makes
\* at most one request, without the retrier, waits for nothing, and a failure
\* of that request, rate-limit or not, is thrown to its caller.
C10_OnlyEstimationSitesRetry ==
    /\ op \in {"checkProjectFeasibility", "generateConstructionEstimate"} =>
         \A k \in 1..Len(outcomes) :
           (RateLimitedAt(k) /\ k <= maxRetries)
           => /\ Len(waits) >= k
              /\ RetrierSettled => Len(outcomes) > k
    /\ (op = "sendChatMessage" /\ pc = "done") =>
         /\ Len(outcomes) <= 1
         /\ waits = <<>>
         /\ (outcomes # <<>> /\ ~outcomes[1].ok) => opResult = Thrown(outcomes[1].error)

C10_Witness ==
    /\ op = "checkProjectFeasibility"
    /\ pc = "done"
    /\ Len(outcomes) = 2
    /\ outcomes[1] = Failed(ErrCode)
    /\ waits = <<DefaultBaseDelay>>
    /\ opResult.kind = "value"
    /\ opResult.value # FeasibilityFallback

====
